---- MODULE Spec2Model ----
(***************************************************************************)
(* DISTA-Flow: fixed-step multi-train simulation (src/src/sim.py) over the *)
(* track model (src/src/model.py), the kinematic integrator                *)
(* (src/src/train.py) and the controller strategies                        *)
(* (src/src/controllers.py, src/src/controllers/ai_controllers.py).        *)
(*                                                                         *)
(* Quantities are exact integers: positions and lengths in m, speeds in    *)
(* m/s, accelerations in m/s^2, times in s.  The factors 0.8 and 0.3 of    *)
(* the RL fallback are applied to accelerations that are multiples of 10,  *)
(* so every value the code computes on these inputs is an integer.         *)
(***************************************************************************)
EXTENDS Integers, Sequences, FiniteSets, TLC

VARIABLES line, trains0, trains, controller_map, dt, T,
          now, queue, pending, finished_trains, log, call, pc, probe

vars == <<line, trains0, trains, controller_map, dt, T,
          now, queue, pending, finished_trains, log, call, pc, probe>>

\* ---------------------------------------------------------------- bounds
NumTrains == 3
MaxT == 9

\* the fleet: the list trains of run_sim, in list order; trains0 is the
\* list as it was handed to run_sim
Trains == DOMAIN trains

\* the value None of the leader argument
None == [id |-> 0]

Min(a, b) == IF a <= b THEN a ELSE b
Max(a, b) == IF a >= b THEN a ELSE b

\* ------------------------------------------------------------ model.py
\* Segment(length_m, speed_mps); the labels, track count and signalling
\* are informational and never read by the simulation.
Segment(len, spd) == [length_m |-> len, speed_mps |-> spd]

\* Line.__init__: cum[0] = 0, cum[i+1] = cum[i] + length  (1-based here:
\* Cum(segs)[i] is the code's cum[i-1])
RECURSIVE CumUpTo(_, _)
CumUpTo(segs, i) == IF i = 0 THEN 0 ELSE CumUpTo(segs, i - 1) + segs[i].length_m

Cum(segs) == [i \in 1..(Len(segs) + 1) |-> CumUpTo(segs, i - 1)]

Line(segs) == [segments |-> segs, cum |-> Cum(segs), total_m |-> CumUpTo(segs, Len(segs))]

\* the attributes a Line object has: the two lists, the total and the one
\* method; there is no next_speed_change
LineAttributes == {"segments", "cum", "total_m", "speed_limit"}

\* speed_limit with a boundary position counted to the segment that ends there
speed_limit_BoundaryToPrevious(l, pos_m) ==
    LET hits == {i \in 1..Len(l.segments) : l.cum[i] < pos_m /\ pos_m <= l.cum[i + 1]}
    IN  IF hits /= {}
        THEN l.segments[CHOOSE i \in hits : \A j \in hits : i <= j].speed_mps
        ELSE l.segments[Len(l.segments)].speed_mps

\* Line.speed_limit: the first segment i with cum[i] <= pos < cum[i+1],
\* otherwise the last segment's limit
speed_limit(l, pos_m) ==
    LET hits == {i \in 1..Len(l.segments) : l.cum[i] <= pos_m /\ pos_m < l.cum[i + 1]}
    IN  IF hits /= {}
        THEN l.segments[CHOOSE i \in hits : \A j \in hits : i <= j].speed_mps
        ELSE l.segments[Len(l.segments)].speed_mps

\* ------------------------------------------------------------ braking.py
\* a ValueError raised in place of a result
ValueError == [raised |-> TRUE, kind |-> "ValueError"]

\* BrakeType and the inputs a TrainBrakingCharacteristics is built from:
\* mass in tons, brake percentage in percent
BrakeType == {"P", "G"}
MassArgs == {-1, 0, 1, 180}
BrakePctArgs == {-1, 0, 65, 100, 135, 200, 201}

\* __post_init__ rejecting a brake percentage of 200
TrainBrakingCharacteristics_UpperBoundOpen(brake_type, brake_percentage, mass_tons, has_ep_brake, adhesion_factor) ==
    IF brake_percentage < 0 \/ brake_percentage >= 200 THEN ValueError
    ELSE IF mass_tons <= 0 THEN ValueError
    ELSE [raised |-> FALSE, brake_type |-> brake_type,
          brake_percentage |-> brake_percentage, mass_tons |-> mass_tons,
          has_ep_brake |-> has_ep_brake, adhesion_factor |-> adhesion_factor]

\* TrainBrakingCharacteristics(...): the dataclass fields the calculator
\* reads, after __post_init__ let them through
TrainBrakingCharacteristics(brake_type, brake_percentage, mass_tons, has_ep_brake, adhesion_factor) ==
    IF brake_percentage < 0 \/ brake_percentage > 200 THEN ValueError
    ELSE IF mass_tons <= 0 THEN ValueError
    ELSE [raised |-> FALSE, brake_type |-> brake_type,
          brake_percentage |-> brake_percentage, mass_tons |-> mass_tons,
          has_ep_brake |-> has_ep_brake, adhesion_factor |-> adhesion_factor]

\* BrakingCalculator.  Decelerations are integers in millionths of m/s^2:
\* G and the adhesion coefficients are kept in hundredths, the brake
\* percentage in percent, the adhesion factor in whole numbers and the
\* gradient in promille, so every product below is exact.
RailCondition == {"dry", "wet", "slippery", "icy"}
G == 981
ADHESION_COEFFICIENTS == [c \in RailCondition |->
    CASE c = "dry" -> 33 [] c = "wet" -> 25 [] c = "slippery" -> 15 [] c = "icy" -> 8]

\* the floor of the total deceleration (0.1 m/s^2)
MinDeceleration == 100000

\* calculate_max_deceleration without the adhesion limit
calculate_max_deceleration_Uncapped(characteristics, rail_condition, gradient_promille) ==
    LET mu                  == ADHESION_COEFFICIENTS[rail_condition]
        a_brake_theoretical == characteristics.brake_percentage * mu * G
                                 * characteristics.adhesion_factor
        gradient_effect     == gradient_promille * G * 10
    IN  Max(MinDeceleration, a_brake_theoretical + gradient_effect)

\* BrakingCalculator.calculate_max_deceleration
calculate_max_deceleration(characteristics, rail_condition, gradient_promille) ==
    LET mu                  == ADHESION_COEFFICIENTS[rail_condition]
        a_brake_theoretical == characteristics.brake_percentage * mu * G
                                 * characteristics.adhesion_factor
        a_adhesion_limit    == mu * G * 100
        a_brake             == Min(a_brake_theoretical, a_adhesion_limit)
        gradient_effect     == gradient_promille * G * 10
        a_total             == a_brake + gradient_effect
    IN  Max(MinDeceleration, a_total)

\* reaction times in tenths of a second
EP_BRAKE_TIME_REDUCTION == 15
BRAKE_RESPONSE_TIMES == [b \in BrakeType |-> IF b = "P" THEN 35 ELSE 80]

\* millionths per unit
Million == 1000000

\* a sum whole10/10 + num/den, kept as its two terms
Sum(whole10, num, den) == [whole10 |-> whole10, num |-> num, den |-> den]

\* km/h to m/s (v / 3.6); the speeds used are multiples of 18 km/h
Mps(v_kmh) == (v_kmh * 10) \div 36

\* calculate_braking_distance with the response time of an EP brake not reduced
calculate_braking_distance_EpIgnored(v_initial_kmh, v_final_kmh, characteristics, rail_condition, gradient_promille, include_reaction_time) ==
    LET v0 == Mps(v_initial_kmh)
        vf == Mps(v_final_kmh)
        a_max == calculate_max_deceleration(characteristics, rail_condition, gradient_promille)
        t_response == IF include_reaction_time
                      THEN BRAKE_RESPONSE_TIMES[characteristics.brake_type]
                      ELSE 0
        s_reaction == IF include_reaction_time THEN v0 * t_response ELSE 0
    IN  IF v0 <= vf THEN <<Sum(0, 0, 1), Sum(0, 0, 1)>>
        ELSE <<Sum(s_reaction, (vf * vf - v0 * v0) * (-Million), 2 * a_max),
               Sum(t_response, (vf - v0) * (-Million), a_max)>>

\* BrakingCalculator.calculate_braking_distance: (s_total, t_total), with
\* s_total = s_reaction + s_brake and t_total = t_response + t_brake;
\* s_brake = (vf^2 - v0^2) / (2 * (-a_max)) and t_brake = (vf - v0) / (-a_max)
\* have the sign moved into the numerator
calculate_braking_distance(v_initial_kmh, v_final_kmh, characteristics, rail_condition, gradient_promille, include_reaction_time) ==
    LET v0 == Mps(v_initial_kmh)
        vf == Mps(v_final_kmh)
        a_max == calculate_max_deceleration(characteristics, rail_condition, gradient_promille)
        t_response == IF include_reaction_time
                      THEN BRAKE_RESPONSE_TIMES[characteristics.brake_type]
                           - (IF characteristics.has_ep_brake
                              THEN EP_BRAKE_TIME_REDUCTION ELSE 0)
                      ELSE 0
        s_reaction == IF include_reaction_time THEN v0 * t_response ELSE 0
    IN  IF v0 <= vf THEN <<Sum(0, 0, 1), Sum(0, 0, 1)>>
        ELSE <<Sum(s_reaction, (vf * vf - v0 * v0) * (-Million), 2 * a_max),
               Sum(t_response, (vf - v0) * (-Million), a_max)>>

\* the speeds calculate_braking_distance is called with, km/h
SpeedKmhArgs == {0, 18, 36, 72, 144}

\* the profiles and gradients the calculator is called with
ValidBrakePct == {bp \in BrakePctArgs : bp >= 0 /\ bp <= 200}
AdhesionFactorArgs == {1, 2}
GradientArgs == {-400, -30, 0, 30}

\* a quotient num/den in lowest terms, den > 0
RECURSIVE GCD(_, _)
GCD(a, b) == IF b = 0 THEN a ELSE GCD(b, a % b)
Frac(num, den) ==
    LET g == GCD(IF num < 0 THEN -num ELSE num, den)
    IN  [num |-> num \div g, den |-> den \div g]

\* BrakingCalculator.calculate_service_brake_curve; v_kmh in tenths of
\* km/h, the factor 0.65 (times 0.9 above 120 km/h) in thousandths, the
\* result a quotient in m/s^2
calculate_service_brake_curve(v_kmh, characteristics, rail_condition) ==
    LET a_max == calculate_max_deceleration(characteristics, rail_condition, 0)
        service_brake_factor == IF v_kmh > 1200 THEN 65 * 9 ELSE 65 * 10
    IN  Frac(a_max * service_brake_factor, Million * 1000)

\* BrakingCalculator.calculate_emergency_brake, a quotient in m/s^2
calculate_emergency_brake(characteristics, rail_condition) ==
    Frac(calculate_max_deceleration(characteristics, rail_condition, 0), Million)

\* ------------------------------------------------------------ train.py
\* TrainState.__init__ in whole units; for the a_max, a_brake >= 1 of the
\* runs max(0.01, a) = a.  With braking_characteristics the brake limit is
\* the service brake value at the initial velocity, a quotient in m/s^2;
\* without, it is the a_brake given.
TrainState(id, pos_m, vel, length_m, a_max, a_brake, braking_characteristics, rail_condition) ==
    IF braking_characteristics /= None
    THEN [id |-> id, pos_m |-> Max(0, pos_m), vel |-> Max(0, vel),
          length_m |-> Max(1, length_m), a_max |-> a_max,
          a_brake |-> calculate_service_brake_curve(Max(0, vel) * 36,
                          braking_characteristics, rail_condition),
          braking_char |-> braking_characteristics, rail_condition |-> rail_condition,
          use_realistic_braking |-> TRUE]
    ELSE [id |-> id, pos_m |-> Max(0, pos_m), vel |-> Max(0, vel),
          length_m |-> Max(1, length_m), a_max |-> a_max, a_brake |-> a_brake,
          braking_char |-> None, rail_condition |-> "dry",
          use_realistic_braking |-> FALSE]

\* the velocity a brake limit takes off in d seconds: a_brake * d, for a
\* fixed limit in whole m/s^2 or a quotient whose denominator divides d
BrakeStep(a_brake, realistic, d) ==
    IF realistic THEN (a_brake.num * d) \div a_brake.den ELSE a_brake * d

\* step advancing the position by the speed the acceleration limit allows
\* instead of the speed it settles on
step_UnclampedAdvance(me, d, v_des, l) ==
    LET vmax     == speed_limit(l, me.pos_m)
        v_target == Min(Max(0, v_des), vmax)
        v1       == IF v_target > me.vel
                    THEN Min(v_target, me.vel + me.a_max * d)
                    ELSE Max(v_target, me.vel - me.a_brake * d)
        v2       == Max(0, v1)
        p1       == me.pos_m + (me.vel + me.a_max * d) * d
    IN  [me EXCEPT !.vel = v2, !.pos_m = Min(p1, l.total_m)]

\* step clamping the target to the limit of the position the train reaches
\* instead of the limit of the position it starts the step from
step_LimitAtArrival(me, d, v_des, l) ==
    LET vmax     == speed_limit(l, Min(me.pos_m + me.vel * d, l.total_m))
        v_target == Min(Max(0, v_des), vmax)
        v1       == IF v_target > me.vel
                    THEN Min(v_target, me.vel + me.a_max * d)
                    ELSE Max(v_target, me.vel - me.a_brake * d)
        v2       == Max(0, v1)
        p1       == me.pos_m + v2 * d
    IN  [me EXCEPT !.vel = v2, !.pos_m = Min(p1, l.total_m)]

\* step dropping to the target at once when it has to slow down
step_BrakeUnlimited(me, d, v_des, l) ==
    LET vmax     == speed_limit(l, me.pos_m)
        v_target == Min(Max(0, v_des), vmax)
        v1       == IF v_target > me.vel
                    THEN Min(v_target, me.vel + me.a_max * d)
                    ELSE v_target
        v2       == Max(0, v1)
        p1       == me.pos_m + v2 * d
    IN  [me EXCEPT !.vel = v2, !.pos_m = Min(p1, l.total_m)]

\* step braking with the emergency deceleration
step_EmergencyDeceleration(me, d, v_des, l) ==
    LET vmax     == speed_limit(l, me.pos_m)
        v_target == Min(Max(0, v_des), vmax)
        a_brake  == IF me.use_realistic_braking
                    THEN calculate_emergency_brake(me.braking_char, me.rail_condition)
                    ELSE me.a_brake
        v1       == IF v_target > me.vel
                    THEN Min(v_target, me.vel + me.a_max * d)
                    ELSE Max(v_target,
                             me.vel - BrakeStep(a_brake, me.use_realistic_braking, d))
        v2       == Max(0, v1)
        p1       == me.pos_m + v2 * d
    IN  [me EXCEPT !.a_brake = a_brake, !.vel = v2, !.pos_m = Min(p1, l.total_m)]

\* TrainState.step; with realistic braking the brake limit is first set to
\* the service brake value at the velocity the step starts from
step(me, d, v_des, l) ==
    LET vmax     == speed_limit(l, me.pos_m)
        v_target == Min(Max(0, v_des), vmax)
        a_brake  == IF me.use_realistic_braking
                    THEN calculate_service_brake_curve(me.vel * 36, me.braking_char,
                                                       me.rail_condition)
                    ELSE me.a_brake
        v1       == IF v_target > me.vel
                    THEN Min(v_target, me.vel + me.a_max * d)
                    ELSE Max(v_target,
                             me.vel - BrakeStep(a_brake, me.use_realistic_braking, d))
        v2       == Max(0, v1)
        p1       == me.pos_m + v2 * d
    IN  [me EXCEPT !.a_brake = a_brake, !.vel = v2, !.pos_m = Min(p1, l.total_m)]

\* TrainState.emergency_brake, a quotient in m/s^2
emergency_brake(me) ==
    IF me.use_realistic_braking
    THEN calculate_emergency_brake(me.braking_char, me.rail_condition)
    ELSE Frac(me.a_brake * 15, 10)

\* ------------------------------------------------------- controllers.py
\* braking_distance(v, a_eff) = v^2 / (2*max(a_eff, 1e-6)), infinite for
\* a_eff <= 0.  The quotient is kept as numerator and denominator; for the
\* integer a_eff >= 1 used here max(a_eff, 1e-6) is a_eff.
braking_distance(v, a_eff) ==
    IF a_eff <= 0 THEN [inf |-> TRUE, num |-> 0, den |-> 1]
    ELSE [inf |-> FALSE, num |-> v * v, den |-> 2 * a_eff]

\* braking_distance(v, a_eff) for an a_eff > 0 held as a quotient in m/s^2
braking_distance_quotient(v, a_eff) ==
    [inf |-> FALSE, num |-> v * v * a_eff.den, den |-> 2 * a_eff.num]

\* what a controller call yields: a speed, or an exception
Returns(v) == [raised |-> FALSE, v |-> v]
AttributeError == [raised |-> TRUE, v |-> 0]

\* EtcsBaseline.__init__ / DistaAI_Simple.__init__ / DistaAI_RL.__init__:
\* negative reaction time and margin are raised to 0
Controller(kind, reaction_s, margin_m) ==
    [kind |-> kind, tr |-> Max(0, reaction_s), margin |-> Max(0, margin_m)]

\* EtcsBaseline.desired_speed: after reading the speed limit it calls
\* line.next_speed_change(me.pos_m); a Line has no such attribute, so the
\* call raises AttributeError and the statements after it are never reached.
EtcsBaseline_desired_speed(c, me, leader, l) ==
    LET vlim == speed_limit(l, me.pos_m)
    IN  CASE "next_speed_change" \notin LineAttributes -> AttributeError

\* DistaAI_Simple.desired_speed: the same first two statements
DistaAI_Simple_desired_speed(c, me, leader, l) ==
    LET vlim == speed_limit(l, me.pos_m)
    IN  CASE "next_speed_change" \notin LineAttributes -> AttributeError

\* ------------------------------------------ controllers/ai_controllers.py
\* DistaAI_RL._rl_fallback.  d_safe = v^2/(2a) + v*tr + margin is the
\* quotient dnum/dden, and the comparisons with 0.8*d_safe and 2.0*d_safe
\* are cross-multiplied by the positive denominators.
\* With realistic braking me.a_brake is a quotient; me.vel - me.a_brake*0.8
\* is then a whole number only at rest, and that is the one case given.
rl_fallback(c, me, leader, vlim) ==
    LET gap  == (leader.pos_m - leader.length_m) - me.pos_m
        bd   == IF me.use_realistic_braking
                THEN braking_distance_quotient(me.vel, me.a_brake)
                ELSE braking_distance(me.vel, me.a_brake)
        dnum == bd.num + (me.vel * c.tr + c.margin) * bd.den
        dden == bd.den
    IN  IF gap * dden * 10 < dnum * 8
        THEN CASE ~me.use_realistic_braking -> Max(0, me.vel - (me.a_brake * 8) \div 10)
               [] me.use_realistic_braking /\ me.vel = 0 -> 0
        ELSE IF gap * dden > dnum * 2
        THEN Min(vlim, me.vel + (me.a_max * 8) \div 10)
        ELSE Min(vlim, me.vel + (me.a_max * 3) \div 10)

\* DistaAI_RL.desired_speed with no trained model loaded (model_path=None)
DistaAI_RL_desired_speed(c, me, leader, l) ==
    LET vlim == speed_limit(l, me.pos_m)
    IN  IF leader = None THEN Returns(vlim)
        ELSE Returns(rl_fallback(c, me, leader, vlim))

\* ctrl.desired_speed(train, leader, line): dispatch on the controller's class
desired_speed(c, me, leader, l) ==
    CASE c.kind = "etcs"         -> EtcsBaseline_desired_speed(c, me, leader, l)
      [] c.kind = "dista_simple" -> DistaAI_Simple_desired_speed(c, me, leader, l)
      [] c.kind = "dista_rl"     -> DistaAI_RL_desired_speed(c, me, leader, l)

\* ----------------------------------------------------------------- sim.py
\* the record appended to log
Record(t, me, fin) == [t |-> t, id |-> me.id, pos_m |-> me.pos_m, v |-> me.vel, finished |-> fin]

\* potential_leaders with >= in place of >
potential_leaders_NotStrict(ts, x) == {y \in DOMAIN ts : ts[y].pos_m >= ts[x].pos_m /\ ts[y].id /= ts[x].id}

\* potential_leaders = [t for t in trains if t.pos_m > train.pos_m and t.id != train.id]
potential_leaders(ts, x) == {y \in DOMAIN ts : ts[y].pos_m > ts[x].pos_m /\ ts[y].id /= ts[x].id}

\* min(potential_leaders, key=lambda x: x.pos_m) if potential_leaders else None:
\* min keeps the first of the list among those with the smallest key
find_leader(ts, x) ==
    LET pl == potential_leaders(ts, x)
    IN  IF pl = {} THEN None
        ELSE ts[CHOOSE y \in pl : \A z \in pl :
                    ts[y].pos_m < ts[z].pos_m \/ (ts[y].pos_m = ts[z].pos_m /\ y <= z)]

\* the condition of line 14: within 1 m of the end
FinishEps == 1
at_end(me, l) == me.pos_m >= l.total_m - FinishEps

\* ------------------------------------------------------------- metrics.py
\* the timestamps of a trace, ascending (df.groupby('t'))
RECURSIVE SortedSeq(_)
SortedSeq(S) ==
    IF S = {} THEN <<>>
    ELSE LET m == CHOOSE a \in S : \A b \in S : a <= b
         IN  <<m>> \o SortedSeq(S \ {m})

Timestamps(df) == SortedSeq({df[i].t : i \in 1..Len(df)})

\* g.sort_values('pos_m').reset_index(drop=True): the rows of timestamp t
\* by ascending position, rows of equal position in trace order
SortedGroup(df, t) ==
    LET rows == {i \in 1..Len(df) : df[i].t = t}
        rank(i) == Cardinality({j \in rows : df[j].pos_m < df[i].pos_m
                                   \/ (df[j].pos_m = df[i].pos_m /\ j < i)}) + 1
    IN  [k \in 1..Cardinality(rows) |-> df[CHOOSE i \in rows : rank(i) = k]]

\* GroupHeadways without the clamp at 0
GroupHeadways_Unclamped(df, t, train_length) ==
    LET g == SortedGroup(df, t)
    IN  IF Len(g) <= 1 THEN <<>>
        ELSE [k \in 1..(Len(g) - 1) |->
                [t |-> t, gap_m |-> g[k + 1].pos_m - (g[k].pos_m + train_length)]]

\* the rows appended to hw for one timestamp
GroupHeadways(df, t, train_length) ==
    LET g == SortedGroup(df, t)
    IN  IF Len(g) <= 1 THEN <<>>
        ELSE [k \in 1..(Len(g) - 1) |->
                [t |-> t, gap_m |-> Max(g[k + 1].pos_m - (g[k].pos_m + train_length), 0)]]

RECURSIVE ConcatGroups(_, _, _)
ConcatGroups(df, ts, train_length) ==
    IF ts = <<>> THEN <<>>
    ELSE GroupHeadways(df, Head(ts), train_length) \o ConcatGroups(df, Tail(ts), train_length)

\* compute_headways(df, train_length)
compute_headways(df, train_length) ==
    IF df = <<>> THEN <<>>
    ELSE ConcatGroups(df, Timestamps(df), train_length)

\* throughput(df, line_length_m): the ids whose largest position is within
\* 1 m of the line length
ThroughputEps == 1
throughput(df, line_length_m) ==
    IF df = <<>> THEN 0
    ELSE Cardinality({x \in {df[i].id : i \in 1..Len(df)} :
            \E i \in 1..Len(df) :
                /\ df[i].id = x
                /\ \A j \in 1..Len(df) : df[j].id = x => df[j].pos_m <= df[i].pos_m
                /\ df[i].pos_m >= line_length_m - ThroughputEps})

\* --------------------------------------------------------------- inputs
\* units: m, m/s, m/s^2, s
Lines == { Line(<<Segment(40, 20), Segment(30, 10)>>),
           Line(<<Segment(30, 10), Segment(30, 20)>>),
           Line(<<Segment(20, 30), Segment(20, 10), Segment(30, 20)>>) }
InitPos == {0, 20, 69}
InitVel == {0, 20}
\* the starts used: at rest, or at speed from the beginning of the line
Starts  == {<<0, 0>>, <<0, 20>>, <<20, 0>>, <<69, 0>>}
Lengths == {20}
Accels  == {10}
Brakes  == {10}
Params  == {<<0, 0>>, <<1, 20>>}
Kinds   == {"etcs", "dista_simple", "dista_rl"}
Dts     == {1, 2}
Horizons == {3, MaxT}

\* the train_length argument of compute_headways: the fleet's length, and
\* the default 120
TrainLengthArgs == {20, 120}

\* the last evaluation made outside the run: which function, on what, with
\* what result
NoProbe == [fn |-> "none", args |-> <<>>, result |-> <<>>]

\* the last call of a controller: whose, with which leader, what came back,
\* and how many records the log held when it was made
NoCall == [me |-> 0, leader |-> 0, raised |-> FALSE, v |-> 0, at |-> 0]

Init ==
    /\ line \in Lines
    /\ \E n \in 0..NumTrains :
       \E ps \in [1..n -> InitPos], vs \in [1..n -> InitVel],
          len \in Lengths, am \in Accels, ab \in Brakes :
          /\ \A x \in 1..n : <<ps[x], vs[x]>> \in Starts
          /\ trains = [x \in 1..n |-> TrainState(x, ps[x], vs[x], len, am, ab, None, "dry")]
    /\ trains0 = trains
    /\ \E k \in Kinds, p \in Params :
          controller_map = [x \in DOMAIN trains |-> Controller(k, p[1], p[2])]
    /\ dt \in Dts
    /\ T \in Horizons
    /\ now = 0
    /\ queue = [i \in DOMAIN trains |-> i]
    /\ pending = <<>>
    /\ finished_trains = {}
    /\ log = <<>>
    /\ call = NoCall
    /\ pc = "running"
    /\ probe = NoProbe

\* runs of trains with a braking profile (test_realistic_braking.py).  The
\* profile is the one whose service brake value times dt is a whole number
\* of m/s: brake_percentage 0, so max_deceleration is its floor 0.1 m/s^2,
\* the service value 13/200 up to 120 km/h and 117/2000 above, and dt 2000 s.
ProfileLines == { Line(<<Segment(300000, 30), Segment(500000, 40)>>),
                  Line(<<Segment(300000, 40), Segment(500000, 20)>>),
                  Line(<<Segment(300000, 200), Segment(500000, 50)>>) }
ProfilePos   == {0, 100000}
ProfileVel   == {0, 30, 40}
ProfileChars == {TrainBrakingCharacteristics("P", 0, 180, FALSE, 1)}
ProfileRails == {"dry", "icy"}
ProfileKinds == {"etcs", "dista_rl"}
ProfileDts   == {2000}
ProfileHorizons == {6000, 14000}
ProfileFleet == 2

InitProfile ==
    /\ line \in ProfileLines
    /\ \E n \in 1..ProfileFleet :
       \E ps \in [1..n -> ProfilePos], vs \in [1..n -> ProfileVel],
          len \in Lengths, am \in Accels, ch \in ProfileChars, rc \in ProfileRails :
          /\ \A x, y \in 1..n : x /= y => ps[x] /= ps[y]
          /\ trains = [x \in 1..n |-> TrainState(x, ps[x], vs[x], len, am, 0, ch, rc)]
    /\ trains0 = trains
    /\ \E k \in ProfileKinds, p \in Params :
          controller_map = [x \in DOMAIN trains |-> Controller(k, p[1], p[2])]
    /\ dt \in ProfileDts
    /\ T \in ProfileHorizons
    /\ now = 0
    /\ queue = [i \in DOMAIN trains |-> i]
    /\ pending = <<>>
    /\ finished_trains = {}
    /\ log = <<>>
    /\ call = NoCall
    /\ pc = "running"
    /\ probe = NoProbe

\* line 12: a generator is resumed, at a time before T
ProcessDue == pc = "running" /\ queue /= <<>> /\ now < T

\* ProcessFinish without the break of line 20: the generator goes round the
\* loop again
ProcessFinish_NoBreak ==
    /\ ProcessDue
    /\ LET x == Head(queue) IN
        /\ at_end(trains[x], line)
        /\ finished_trains' = finished_trains \cup {x}
        /\ log' = Append(log, Record(now, trains[x], TRUE))
        /\ queue' = Tail(queue)
        /\ pending' = Append(pending, x)
    /\ UNCHANGED <<probe, line, trains0, trains, controller_map, dt, T, now, call, pc>>

\* process(train, ctrl), lines 14-20: the train is within 1 m of the end;
\* its finished record is logged and the generator ends
ProcessFinish ==
    /\ ProcessDue
    /\ LET x == Head(queue) IN
        /\ at_end(trains[x], line)
        /\ finished_trains' = finished_trains \cup {x}
        /\ log' = Append(log, Record(now, trains[x], TRUE))
        /\ queue' = Tail(queue)
    /\ UNCHANGED <<probe, line, trains0, trains, controller_map, dt, T, now, pending, call, pc>>

\* ProcessTick appending its record after the timeout, at the time the
\* generator is resumed
ProcessTick_LogAfterTimeout ==
    /\ ProcessDue
    /\ LET x      == Head(queue)
           leader == find_leader(trains, x)
           r      == desired_speed(controller_map[x], trains[x], leader, line)
           me1    == step(trains[x], dt, r.v, line)
       IN
        /\ ~at_end(trains[x], line)
        /\ ~r.raised
        /\ call' = [me |-> x, leader |-> leader.id, raised |-> FALSE, v |-> r.v, at |-> Len(log)]
        /\ trains' = [trains EXCEPT ![x] = me1]
        /\ log' = Append(log, Record(now + dt, me1, FALSE))
        /\ queue' = Tail(queue)
        /\ pending' = Append(pending, x)
    /\ UNCHANGED <<probe, line, trains0, controller_map, dt, T, now, finished_trains, pc>>

\* ProcessTick with an engine-side guard that holds a train behind the rear
\* of its leader
ProcessTick_HoldBehindLeader ==
    /\ ProcessDue
    /\ LET x      == Head(queue)
           leader == find_leader(trains, x)
           r      == desired_speed(controller_map[x], trains[x], leader, line)
           me0    == step(trains[x], dt, r.v, line)
           me1    == IF leader = None THEN me0
                     ELSE [me0 EXCEPT !.pos_m = Min(me0.pos_m,
                              Max(trains[x].pos_m, leader.pos_m - leader.length_m))]
       IN
        /\ ~at_end(trains[x], line)
        /\ ~r.raised
        /\ call' = [me |-> x, leader |-> leader.id, raised |-> FALSE, v |-> r.v, at |-> Len(log)]
        /\ trains' = [trains EXCEPT ![x] = me1]
        /\ log' = Append(log, Record(now, me1, FALSE))
        /\ queue' = Tail(queue)
        /\ pending' = Append(pending, x)
    /\ UNCHANGED <<probe, line, trains0, controller_map, dt, T, now, finished_trains, pc>>

\* ProcessTick with the timeouts of one time resumed last in, first out
ProcessTick_ResumeLastFirst ==
    /\ ProcessDue
    /\ LET x      == Head(queue)
           leader == find_leader(trains, x)
           r      == desired_speed(controller_map[x], trains[x], leader, line)
           me1    == step(trains[x], dt, r.v, line)
       IN
        /\ ~at_end(trains[x], line)
        /\ ~r.raised
        /\ call' = [me |-> x, leader |-> leader.id, raised |-> FALSE, v |-> r.v, at |-> Len(log)]
        /\ trains' = [trains EXCEPT ![x] = me1]
        /\ log' = Append(log, Record(now, me1, FALSE))
        /\ queue' = Tail(queue)
        /\ pending' = <<x>> \o pending
    /\ UNCHANGED <<probe, line, trains0, controller_map, dt, T, now, finished_trains, pc>>

\* process(train, ctrl), lines 22-35: leader lookup, controller, step, log,
\* and the timeout that resumes the generator at now + dt
ProcessTick ==
    /\ ProcessDue
    /\ LET x      == Head(queue)
           leader == find_leader(trains, x)
           r      == desired_speed(controller_map[x], trains[x], leader, line)
           me1    == step(trains[x], dt, r.v, line)
       IN
        /\ ~at_end(trains[x], line)
        /\ ~r.raised
        /\ call' = [me |-> x, leader |-> leader.id, raised |-> FALSE, v |-> r.v, at |-> Len(log)]
        /\ trains' = [trains EXCEPT ![x] = me1]
        /\ log' = Append(log, Record(now, me1, FALSE))
        /\ queue' = Tail(queue)
        /\ pending' = Append(pending, x)
    /\ UNCHANGED <<probe, line, trains0, controller_map, dt, T, now, finished_trains, pc>>

\* process(train, ctrl), line 27 raising: the exception leaves the generator
\* and env.run, so run_sim ends without returning a trace
ProcessRaise ==
    /\ ProcessDue
    /\ LET x      == Head(queue)
           leader == find_leader(trains, x)
           r      == desired_speed(controller_map[x], trains[x], leader, line)
       IN
        /\ ~at_end(trains[x], line)
        /\ r.raised
        /\ call' = [me |-> x, leader |-> leader.id, raised |-> TRUE, v |-> 0, at |-> Len(log)]
        /\ pc' = "raised"
    /\ UNCHANGED <<probe, line, trains0, trains, controller_map, dt, T, now, queue, pending,
                   finished_trains, log>>

\* env.run(until=T): the events of the current time are all processed and
\* the next timeouts are due before T / nothing is left that is due before T
CanAdvance == pc = "running" /\ queue = <<>> /\ pending /= <<>> /\ now + dt < T
CanReturn  == pc = "running" /\ queue = <<>> /\ (pending = <<>> \/ now + dt >= T)

\* env.run(until=T): every event of the current time is processed and the
\* next timeouts are due before T; the clock moves on to them
EnvAdvance ==
    /\ CanAdvance
    /\ now' = now + dt
    /\ queue' = pending
    /\ pending' = <<>>
    /\ UNCHANGED <<probe, line, trains0, trains, controller_map, dt, T, finished_trains, log, call, pc>>

\* env.run(until=T) returns: nothing is left that is due before T;
\* run_sim returns the log
RunReturn ==
    /\ CanReturn
    /\ now' = T
    /\ pc' = "returned"
    /\ UNCHANGED <<probe, line, trains0, trains, controller_map, dt, T, queue, pending,
                   finished_trains, log, call>>

\* the caller of run_sim evaluates the metrics on the returned trace
\* (run_sweep.py:57-62)
Analyse ==
    /\ pc = "returned" /\ probe = NoProbe
    /\ \E tl \in TrainLengthArgs :
          probe' = [fn |-> "metrics", args |-> <<tl>>,
                    result |-> [headways |-> compute_headways(log, tl),
                                throughput |-> throughput(log, line.total_m)]]
    /\ UNCHANGED <<line, trains0, trains, controller_map, dt, T, now, queue, pending,
                   finished_trains, log, call, pc>>

Next == ProcessFinish \/ ProcessTick \/ ProcessRaise \/ EnvAdvance \/ RunReturn \/ Analyse

Spec == Init /\ [][Next]_vars

\* the runs of trains with a braking profile
SpecProfile == InitProfile /\ [][Next]_vars

\* ------------------------------------------------ configuration and calls
\* the keys of the dict in create_controller
ControllerKeys == {"etcs", "dista_simple", "dista_predictive", "dista_rl"}

\* the names requested of the factory
ControllerTypes == {"etcs", "dista_simple", "dista_predictive", "dista_rl",
                    "ETCS", "Dista_RL", "Simple", "DistaAI_Predictive", "DistaAI_RL",
                    "lstm", ""}

\* str.lower on the names requested
lower(name) ==
    CASE name = "ETCS"               -> "etcs"
      [] name = "Dista_RL"           -> "dista_rl"
      [] name = "Simple"             -> "simple"
      [] name = "DistaAI_Predictive" -> "distaai_predictive"
      [] name = "DistaAI_RL"         -> "distaai_rl"
      [] OTHER                       -> name

\* what a configuration call yields: a controller of a class, or an exception
Created(kind) == [raised |-> FALSE, kind |-> kind]

\* create_controller of controllers/ai_controllers.py, called without kwargs
create_controller(controller_type) ==
    IF lower(controller_type) \notin ControllerKeys THEN ValueError
    ELSE Created(lower(controller_type))

\* create_controller as app.py defines it when the import fails
create_controller_fallback(controller_type) == Created("dista_simple")

\* the name create_controller in app.py: the factory when the import of
\* controllers.ai_controllers succeeded (AI_AVAILABLE), else the fallback
app_create_controller(AI_AVAILABLE, controller_type) ==
    IF AI_AVAILABLE THEN create_controller(controller_type)
    ELSE create_controller_fallback(controller_type)

\* the choices the sidebar of app.py offers
controller_options(AI_AVAILABLE) ==
    IF AI_AVAILABLE THEN {"Simple", "DistaAI_Predictive", "DistaAI_RL"} ELSE {"Simple"}

\* the controller app.py builds from the choice
app_controller(AI_AVAILABLE, controller_type) ==
    IF controller_type = "Simple" \/ ~AI_AVAILABLE THEN Created("dista_simple")
    ELSE app_create_controller(AI_AVAILABLE, controller_type)

\* the speeds and decelerations braking_distance is called with
MaxSpeedArg == 30
AccelArgs == {-10, -1, 0, 1, 10}

\* ------------------------------------------- train.py, constructor alone
\* the arguments TrainState is constructed with, in hundredths of their
\* unit (cm, cm/s, cm/s^2), so that the floor 0.01 is the integer 1 and the
\* floor 1.0 the integer 100
PosArgs == {-50, 0, 450000}
VelArgs == {-1, 0, 2500}
LengthArgs == {-100, 0, 99, 100, 12000}
AccelLimitArgs == {-70, 0, 1, 70}

\* the constructor letting a length below 1 m stand when it is not negative
TrainState_init_LengthFlooredAtZero(train_id, pos_m, vel, length_m, a_max, a_brake) ==
    [id |-> train_id, pos_m |-> Max(0, pos_m), vel |-> Max(0, vel),
     length_m |-> Max(0, length_m),
     a_max |-> Max(1, a_max), a_brake |-> Max(1, a_brake)]

\* TrainState.__init__ without braking_characteristics, in hundredths
TrainState_init(train_id, pos_m, vel, length_m, a_max, a_brake) ==
    [id |-> train_id, pos_m |-> Max(0, pos_m), vel |-> Max(0, vel),
     length_m |-> Max(100, length_m),
     a_max |-> Max(1, a_max), a_brake |-> Max(1, a_brake)]

\* no run: the functions are called on their own
InitCalls ==
    /\ line \in Lines
    /\ trains = <<>> /\ trains0 = <<>> /\ controller_map = <<>>
    /\ dt \in Dts /\ T \in Horizons /\ now = 0
    /\ queue = <<>> /\ pending = <<>> /\ finished_trains = {} /\ log = <<>>
    /\ call = NoCall
    /\ pc = "calls"
    /\ probe = NoProbe

\* a call of braking_distance(v, a_eff)
CallBrakingDistance ==
    /\ pc = "calls" /\ probe = NoProbe
    /\ \E v \in 0..MaxSpeedArg, a \in AccelArgs :
          probe' = [fn |-> "braking_distance", args |-> <<v, a>>,
                    result |-> braking_distance(v, a)]
    /\ UNCHANGED <<line, trains0, trains, controller_map, dt, T, now, queue, pending,
                   finished_trains, log, call, pc>>

\* a call of the name create_controller bound in app.py
CallCreateController ==
    /\ pc = "calls" /\ probe = NoProbe
    /\ \E ai \in BOOLEAN, name \in ControllerTypes :
          probe' = [fn |-> "create_controller", args |-> <<ai, name>>,
                    result |-> app_create_controller(ai, name)]
    /\ UNCHANGED <<line, trains0, trains, controller_map, dt, T, now, queue, pending,
                   finished_trains, log, call, pc>>

\* the sidebar choice of app.py turned into a controller
Configure ==
    /\ pc = "calls" /\ probe = NoProbe
    /\ \E ai \in BOOLEAN : \E name \in controller_options(ai) :
          probe' = [fn |-> "app_controller", args |-> <<ai, name>>,
                    result |-> app_controller(ai, name)]
    /\ UNCHANGED <<line, trains0, trains, controller_map, dt, T, now, queue, pending,
                   finished_trains, log, call, pc>>

\* a TrainBrakingCharacteristics is constructed
CallBrakingCharacteristics ==
    /\ pc = "calls" /\ probe = NoProbe
    /\ \E bt \in BrakeType, bp \in BrakePctArgs, m \in MassArgs, ep \in BOOLEAN :
          probe' = [fn |-> "TrainBrakingCharacteristics", args |-> <<bt, bp, m, ep>>,
                    result |-> TrainBrakingCharacteristics(bt, bp, m, ep, 1)]
    /\ UNCHANGED <<line, trains0, trains, controller_map, dt, T, now, queue, pending,
                   finished_trains, log, call, pc>>

\* a TrainState is constructed
CallTrainState ==
    /\ pc = "calls" /\ probe = NoProbe
    /\ \E p \in PosArgs, v \in VelArgs, len \in LengthArgs,
          am \in AccelLimitArgs, ab \in AccelLimitArgs :
          probe' = [fn |-> "TrainState", args |-> <<p, v, len, am, ab>>,
                    result |-> TrainState_init(1, p, v, len, am, ab)]
    /\ UNCHANGED <<line, trains0, trains, controller_map, dt, T, now, queue, pending,
                   finished_trains, log, call, pc>>

\* a call of BrakingCalculator.calculate_max_deceleration
CallMaxDeceleration ==
    /\ pc = "calls" /\ probe = NoProbe
    /\ \E bt \in BrakeType, bp \in ValidBrakePct, af \in AdhesionFactorArgs,
          rc \in RailCondition, gp \in GradientArgs :
          LET ch == TrainBrakingCharacteristics(bt, bp, 180, FALSE, af)
          IN  probe' = [fn |-> "calculate_max_deceleration", args |-> <<ch, rc, gp>>,
                        result |-> calculate_max_deceleration(ch, rc, gp)]
    /\ UNCHANGED <<line, trains0, trains, controller_map, dt, T, now, queue, pending,
                   finished_trains, log, call, pc>>

\* a call of BrakingCalculator.calculate_braking_distance
CallCalculateBrakingDistance ==
    /\ pc = "calls" /\ probe = NoProbe
    /\ \E vi \in SpeedKmhArgs, vf \in SpeedKmhArgs, bt \in BrakeType,
          bp \in {0, 135}, ep \in BOOLEAN, rc \in RailCondition, inc \in BOOLEAN :
          LET ch == TrainBrakingCharacteristics(bt, bp, 180, ep, 1)
          IN  probe' = [fn |-> "calculate_braking_distance",
                        args |-> <<vi, vf, ch, rc, 0, inc>>,
                        result |-> calculate_braking_distance(vi, vf, ch, rc, 0, inc)]
    /\ UNCHANGED <<line, trains0, trains, controller_map, dt, T, now, queue, pending,
                   finished_trains, log, call, pc>>

NextCalls ==
    \/ CallBrakingDistance \/ CallCreateController \/ Configure
    \/ CallBrakingCharacteristics \/ CallTrainState \/ CallMaxDeceleration
    \/ CallCalculateBrakingDistance

SpecCalls == InitCalls /\ [][NextCalls]_vars

\* ================================================================ claims
\* the records of train x, as positions in the log
RecordsOf(x) == {i \in 1..Len(log) : log[i].id = x}

\* i and j are consecutive records of the same train
Consecutive(i, j) ==
    /\ i < j /\ log[i].id = log[j].id
    /\ \A k \in (i + 1)..(j - 1) : log[k].id /= log[i].id

\* C1: finish detection is idempotent: a train has at most one finished
\* record, no record of that train follows it, and the train's position
\* stays what that record says.
C1_FinishIdempotent ==
    \A i \in 1..Len(log) :
        log[i].finished =>
            /\ \A j \in RecordsOf(log[i].id) : j <= i
            /\ \A j \in RecordsOf(log[i].id) : j < i => ~log[j].finished
            /\ trains[log[i].id].pos_m = log[i].pos_m
            /\ log[i].id \in finished_trains

\* C1 witness: a train's finished record was emitted and the other trains
\* went on for a later tick
C1_Witness ==
    \E i, j \in 1..Len(log) :
        /\ i < j /\ log[i].finished /\ log[j].t > log[i].t
        /\ \E k \in RecordsOf(log[i].id) : k < i

\* C2: once a train's finished record is in the log, the train is not
\* stepped again and is not handed to any controller as the leader.
C2_FinishedExcluded ==
    /\ \A i \in 1..Len(log) :
          log[i].finished => trains[log[i].id].pos_m = log[i].pos_m
    /\ call.leader /= 0 =>
          \A i \in 1..call.at : ~(log[i].finished /\ log[i].id = call.leader)

\* a controller is called in this step
ControllerCalled == call' /= call

\* C3: the leader handed to the controller of X is a train strictly ahead
\* of X with the smallest such position, the first of them in fleet order;
\* it is None exactly when no other train is strictly ahead.
C3_LeaderIsNearestAhead ==
    [][ControllerCalled =>
        LET x == call'.me
            L == call'.leader
            ahead == {y \in Trains \ {x} : trains[y].pos_m > trains[x].pos_m}
        IN  /\ L /= x
            /\ (L = 0) <=> (ahead = {})
            /\ L /= 0 =>
                /\ L \in ahead
                /\ \A y \in ahead : trains[L].pos_m <= trains[y].pos_m
                /\ \A y \in ahead : trains[y].pos_m = trains[L].pos_m => L <= y]_vars

\* C3 witness: a controller was just called with a leader that shares its
\* position with another train later in the fleet, while a third train
\* stands where the caller stood or behind it
C3_Witness ==
    /\ call.leader /= 0 /\ ~call.raised /\ call.at = Len(log) - 1
    /\ \E y \in Trains \ {call.me, call.leader} :
          /\ trains[y].pos_m = trains[call.leader].pos_m
          /\ call.leader < y

\* C4: no teleportation: between two consecutive records of a train the
\* position grows by at most max(v before, v after) * dt.
C4_NoTeleportation ==
    \A i, j \in 1..Len(log) :
        Consecutive(i, j) =>
            log[j].pos_m - log[i].pos_m <= Max(log[i].v, log[j].v) * dt

\* C4 witness: a train moved by exactly v*dt > 0 between two records, and
\* another pair ends in a finished record
C4_Witness ==
    /\ \E i, j \in 1..Len(log) :
          /\ Consecutive(i, j) /\ ~log[j].finished
          /\ log[j].pos_m > log[i].pos_m
          /\ log[j].pos_m - log[i].pos_m = log[j].v * dt
    /\ \E i, j \in 1..Len(log) : Consecutive(i, j) /\ log[j].finished

\* the trains run by EtcsBaseline or DistaAI_Simple
Lookahead == {x \in Trains : controller_map[x].kind \in {"etcs", "dista_simple"}}

\* C5: anticipatory braking: in a run under EtcsBaseline or DistaAI_Simple
\* the controller yields a speed at every tick, and the first record of a
\* train in a segment with a lower limit than the segment of its previous
\* record has a velocity of at most that lower limit.
C5_AnticipatoryBraking ==
    \A x \in Lookahead :
        /\ ~(call.me = x /\ call.raised)
        /\ \A i, j \in RecordsOf(x) :
              (Consecutive(i, j)
                 /\ speed_limit(line, log[j].pos_m) < speed_limit(line, log[i].pos_m))
              => log[j].v <= speed_limit(line, log[j].pos_m)

\* the run is over: run_sim returned its trace or left with an exception
RunOver == pc \in {"returned", "raised"}

\* a fleet of one train that started at rest at position 0
LoneFromRest == Trains = {1} /\ trains0[1].pos_m = 0 /\ trains0[1].vel = 0

\* C6: a lone train started at rest at position 0, run to the long horizon,
\* has a finished record when the run is over, within 1 m of the end.
C6_LoneTrainFinishes ==
    (RunOver /\ LoneFromRest /\ T = MaxT) =>
        \E i \in 1..Len(log) :
            /\ log[i].finished
            /\ log[i].pos_m >= line.total_m - 1
            /\ log[i].pos_m <= line.total_m

\* C7: leader following under EtcsBaseline and DistaAI_Simple: with a
\* leader, v > 0 and gap < d_safe the controller returns
\* r = min(v_limit, sqrt(2*a_brake*slack)), slack = max(0, gap - margin - v*tr),
\* which is below v, and 0 when gap <= margin + v*tr.  (r is compared through
\* its square; d_safe = v^2/(2a) + v*tr + margin is multiplied by 2a.)
C7_LeaderFollowing ==
    [][(ControllerCalled /\ call'.me \in Lookahead /\ call'.leader /= 0) =>
        LET me    == trains[call'.me]
            ld    == trains[call'.leader]
            c     == controller_map[call'.me]
            gap   == (ld.pos_m - ld.length_m) - me.pos_m
            slack == Max(0, gap - c.margin - me.vel * c.tr)
            r     == call'.v
        IN  (me.vel > 0 /\ 2 * me.a_brake * gap
                            < me.vel * me.vel + 2 * me.a_brake * (me.vel * c.tr + c.margin)) =>
              /\ ~call'.raised
              /\ r >= 0 /\ r <= speed_limit(line, me.pos_m)
              /\ r * r <= 2 * me.a_brake * slack
              /\ (r = speed_limit(line, me.pos_m) \/ r * r = 2 * me.a_brake * slack)
              /\ r < me.vel
              /\ (gap <= c.margin + me.vel * c.tr => r = 0)]_vars

\* C8: EtcsBaseline.desired_speed and DistaAI_Simple.desired_speed return,
\* for every own state and every leader or none, a speed between 0 and the
\* speed limit at the train's position.
C8_WithinLimit ==
    [][(ControllerCalled /\ call'.me \in Lookahead) =>
        /\ ~call'.raised
        /\ call'.v >= 0
        /\ call'.v <= speed_limit(line, trains[call'.me].pos_m)]_vars

\* C9: no global safety enforcement: in every step of the engine at most
\* the train whose process runs changes, and it changes to exactly what
\* step makes of its own controller's output.
C9_NoEnforcement ==
    [][/\ \A y \in Trains :
            trains'[y] /= trains[y] => (ControllerCalled /\ call'.me = y)
       /\ (ControllerCalled /\ ~call'.raised) =>
            trains'[call'.me] = step(trains[call'.me], dt, call'.v, line)]_vars

\* gap between the front of f and the rear of l, from two records
RecGap(i, k) == (log[k].pos_m - trains[log[k].id].length_m) - log[i].pos_m

\* the fleet started ordered and without overlap: of any two trains one
\* has its front at or behind the other's rear
StartedApart ==
    \A x, y \in Trains : x /= y =>
        \/ trains0[x].pos_m <= trains0[y].pos_m - trains0[y].length_m
        \/ trains0[y].pos_m <= trains0[x].pos_m - trains0[x].length_m

\* C9 witness: a fleet that started apart, with reaction time and margin 0,
\* has a record in which a follower's front is beyond the rear of the train
\* ahead of it at that tick, and the follower was stepped again afterwards
C9_Witness ==
    /\ StartedApart
    /\ \A x \in Trains : controller_map[x].tr >= 0 /\ controller_map[x].margin >= 0
    /\ \E i, j, k \in 1..Len(log) :
          /\ Consecutive(i, j) /\ ~log[i].finished /\ ~log[j].finished
          /\ log[k].t = log[i].t /\ log[k].id /= log[i].id /\ ~log[k].finished
          /\ log[k].pos_m > log[i].pos_m
          /\ RecGap(i, k) < 0
          /\ log[j].pos_m > log[i].pos_m

\* tick times: the multiples of dt below T
Ticks == {t \in 0..(T - 1) : t % dt = 0}

\* the trace has its full shape: no record at or after T, and at every tick
\* exactly one record of every train that had no finished record before it
TraceShape ==
    /\ \A i \in 1..Len(log) : log[i].t < T /\ log[i].t \in Ticks
    /\ \A t \in Ticks : \A x \in Trains :
          (~\E i \in RecordsOf(x) : log[i].finished /\ log[i].t < t)
          => Cardinality({i \in RecordsOf(x) : log[i].t = t}) = 1
    /\ \A x \in Trains :
          (\A i \in RecordsOf(x) : log[i].pos_m < line.total_m - 1)
          => /\ \A i \in RecordsOf(x) : ~log[i].finished
             /\ \E i \in RecordsOf(x) : log[i].t + dt >= T

\* what is left of the run: the processes still due at this time, and a
\* full round for every tick after it
Remaining ==
    IF pc /= "running" THEN 0
    ELSE 1 + Len(queue) + Cardinality({t \in Ticks : t > now}) * (Cardinality(Trains) + 1)

\* C10: run_sim comes to an end (while it runs, a process is due before T or
\* the environment can advance or return, and every step uses up some of
\* what is left of the run), and the trace it returns has the full shape.
C10_TraceShapeAndHorizon ==
    /\ [](pc = "running" => (ProcessDue \/ CanAdvance \/ CanReturn))
    /\ [][pc = "running" => Remaining' < Remaining]_vars
    /\ [](pc = "returned" => TraceShape)

\* C10 witness: run_sim returned a trace in which one train finished before
\* the last tick and another never reached the end
C10_Witness ==
    /\ pc = "returned"
    /\ \E i \in 1..Len(log) : log[i].finished /\ log[i].t + dt < T
    /\ \E x \in Trains : \A i \in RecordsOf(x) : ~log[i].finished

\* the trains with a finished record in the trace
FinishedIds == {log[i].id : i \in {j \in 1..Len(log) : log[j].finished}}

\* C11: throughput(trace, total_length) is the number of trains that have a
\* finished record in the trace run_sim returned.
C11_ThroughputCountsFinished ==
    probe.fn = "metrics" => probe.result.throughput = Cardinality(FinishedIds)

\* the records of the trace at time t, and the k-th smallest of their
\* positions (counted with repetitions)
RecordsAt(t) == {i \in 1..Len(log) : log[i].t = t}
KthPos(t, k) ==
    CHOOSE p \in {log[i].pos_m : i \in RecordsAt(t)} :
        /\ Cardinality({i \in RecordsAt(t) : log[i].pos_m < p}) < k
        /\ k <= Cardinality({i \in RecordsAt(t) : log[i].pos_m <= p})

\* the headways computed for time t, in their order
HeadwaysAt(hw, t) == SelectSeq(hw, LAMBDA h : h.t = t)

\* C12: compute_headways yields for every timestamp with n >= 2 records
\* exactly n-1 gaps, the k-th being max(0, p[k+1] - (p[k] + train_length))
\* for the positions p in ascending order, none for a timestamp with one
\* record and none for an empty trace; every gap is >= 0.
C12_Headways ==
    probe.fn = "metrics" =>
        LET hw == probe.result.headways
            tl == probe.args[1]
        IN  /\ \A k \in 1..Len(hw) : hw[k].gap_m >= 0 /\ RecordsAt(hw[k].t) /= {}
            /\ log = <<>> => hw = <<>>
            /\ \A i \in 1..Len(log) :
                  LET t == log[i].t
                      n == Cardinality(RecordsAt(t))
                      h == HeadwaysAt(hw, t)
                  IN  /\ Len(h) = n - 1
                      /\ \A k \in 1..(n - 1) :
                            h[k].gap_m = Max(0, KthPos(t, k + 1) - (KthPos(t, k) + tl))

\* C12 witness: headways were computed for a trace with three records at
\* one time, one pair closer than the train length (gap clamped to 0) and
\* one pair with a positive gap
C12_Witness ==
    /\ probe.fn = "metrics"
    /\ \E i \in 1..Len(log) :
          LET t == log[i].t
              h == HeadwaysAt(probe.result.headways, t)
          IN  /\ Cardinality(RecordsAt(t)) = 3
              /\ \E k \in 1..2 : KthPos(t, k + 1) - (KthPos(t, k) + probe.args[1]) < 0
                                 /\ h[k].gap_m = 0
              /\ \E k \in 1..2 : h[k].gap_m > 0

\* C12 witness for the empty trace is the run of an empty fleet
C12_EmptyTrace == probe.fn = "metrics" /\ log = <<>> /\ probe.result.headways = <<>>

\* positions beyond the end that are looked at
Beyond == 3

\* C13: speed_limit(pos) is, for 0 <= pos < total_m, the limit of the one
\* segment i with cum[i] <= pos < cum[i+1] (a boundary belongs to the
\* segment that starts there), and the last segment's limit for
\* pos >= total_m; cum starts at 0, adds the lengths, and ends at total_m.
C13_SpeedLimit ==
    LET n == Len(line.segments) IN
    /\ line.cum[1] = 0
    /\ \A i \in 1..n : line.cum[i + 1] = line.cum[i] + line.segments[i].length_m
    /\ line.total_m = line.cum[n + 1]
    /\ \A pos \in 0..(line.total_m - 1) :
          LET inside == {i \in 1..n : line.cum[i] <= pos /\ pos < line.cum[i + 1]}
          IN  /\ Cardinality(inside) = 1
              /\ \A i \in inside : speed_limit(line, pos) = line.segments[i].speed_mps
    /\ \A i \in 2..n : line.segments[i].length_m > 0 =>
          /\ speed_limit(line, line.cum[i]) = line.segments[i].speed_mps
          /\ speed_limit(line, line.cum[i] - 1) = line.segments[i - 1].speed_mps
    /\ \A pos \in line.total_m..(line.total_m + Beyond) :
          speed_limit(line, pos) = line.segments[n].speed_mps

\* C13 witness: a train recorded exactly on an inner boundary, above the
\* limit of the segment that starts there, was stepped again and braked to
\* that limit
C13_Witness ==
    \E i, j \in 1..Len(log) :
        /\ Consecutive(i, j) /\ ~log[j].finished
        /\ \E b \in 2..Len(line.segments) :
              /\ log[i].pos_m = line.cum[b]
              /\ line.segments[b].speed_mps < line.segments[b - 1].speed_mps
              /\ log[i].v > line.segments[b].speed_mps
              /\ log[j].v = line.segments[b].speed_mps

\* C14: the track offers next_speed_change, and the call the lookahead
\* controllers (EtcsBaseline, DistaAI_Simple) make to it on every tick
\* never fails.
C14_NextSpeedChange ==
    (call.me /= 0 /\ call.me \in Lookahead) =>
        /\ "next_speed_change" \in LineAttributes
        /\ ~call.raised

\* C15: step is one Euler step in this order: the target is the controller's
\* speed raised to 0 and cut to the limit of the position BEFORE the step;
\* the velocity moves toward the target by at most a_max*dt upward or
\* a_brake*dt downward, never past it and never below 0; the position
\* advances by the new velocity times dt and is cut to total_m.
C15_StepOrdering ==
    [][(ControllerCalled /\ ~call'.raised) =>
        LET me     == trains[call'.me]
            after  == trains'[call'.me]
            target == Min(Max(0, call'.v), speed_limit(line, me.pos_m))
        IN  /\ target > me.vel =>
                  /\ after.vel = Min(target, me.vel + me.a_max * dt)
                  /\ after.vel <= target
            /\ target <= me.vel =>
                  /\ after.vel = Max(0, Max(target, me.vel - me.a_brake * dt))
                  /\ after.vel >= target
            /\ after.vel >= 0
            /\ after.pos_m = Min(me.pos_m + after.vel * dt, line.total_m)]_vars

\* C15 witness: a train accelerated to the limit of the position it started
\* the step from and arrived, at that speed, where the limit is lower
C15_Witness ==
    \E i, j \in 1..Len(log) :
        /\ Consecutive(i, j) /\ ~log[j].finished
        /\ log[j].v > log[i].v
        /\ log[j].v = speed_limit(line, log[i].pos_m)
        /\ log[j].v > speed_limit(line, log[j].pos_m)

\* C16: in every state of a run and in every trace record each train has
\* 0 <= position <= total_m and velocity >= 0, and the position in a
\* train's later record is never below the position in its earlier one.
C16_StateBounds ==
    /\ \A x \in Trains :
          /\ 0 <= trains[x].pos_m /\ trains[x].pos_m <= line.total_m
          /\ trains[x].vel >= 0
    /\ \A i \in 1..Len(log) :
          /\ 0 <= log[i].pos_m /\ log[i].pos_m <= line.total_m
          /\ log[i].v >= 0
    /\ \A i, j \in 1..Len(log) :
          (i < j /\ log[i].id = log[j].id) => log[i].pos_m <= log[j].pos_m

\* the leader constraint binds for me behind ld under controller c:
\* gap < d_safe = v^2/(2a) + v*tr + margin, multiplied by 2a
Binds(c, me, ld) ==
    /\ ld /= None
    /\ 2 * me.a_brake * ((ld.pos_m - ld.length_m) - me.pos_m)
          < me.vel * me.vel + 2 * me.a_brake * (me.vel * c.tr + c.margin)

\* C17: for the same reaction time and margin and the same own state, leader
\* and track, EtcsBaseline and DistaAI_Simple both return a speed; the two
\* speeds are equal when the leader constraint binds, and otherwise
\* DistaAI_Simple returns min(Etcs's speed, v + 0.5*a_max), so it is never
\* above EtcsBaseline's.
C17_VariantsAgree ==
    \A x \in Trains :
        LET c  == controller_map[x]
            me == trains[x]
            ld == find_leader(trains, x)
            e  == EtcsBaseline_desired_speed(c, me, ld, line)
            s  == DistaAI_Simple_desired_speed(c, me, ld, line)
        IN  /\ ~e.raised /\ ~s.raised
            /\ Binds(c, me, ld) => s.v = e.v
            /\ ~Binds(c, me, ld) => s.v = Min(e.v, me.vel + me.a_max \div 2)
            /\ s.v <= e.v

\* the trains whose controller is a strategy with a fallback
Advisory == {x \in Trains : controller_map[x].kind = "dista_rl"}

\* C18: with no trained model, DistaAI_RL returns what the shared
\* controller skeleton returns: behind a leader with gap < d_safe the
\* speed r is at most the limit and at most sqrt(2*a_brake*slack),
\* slack = max(0, gap - margin - v*tr)  (compared through the square).
C18_FallbackIsSkeleton ==
    [][(ControllerCalled /\ call'.me \in Advisory /\ call'.leader /= 0) =>
        LET me    == trains[call'.me]
            ld    == trains[call'.leader]
            c     == controller_map[call'.me]
            gap   == (ld.pos_m - ld.length_m) - me.pos_m
            slack == Max(0, gap - c.margin - me.vel * c.tr)
            r     == call'.v
        IN  Binds(c, me, ld) =>
              /\ ~call'.raised
              /\ r >= 0 /\ r <= speed_limit(line, me.pos_m)
              /\ r * r <= 2 * me.a_brake * slack]_vars

\* C19: an unknown controller type fails with an explicit error and never
\* yields a controller: a request for a name that, lowercased, is not one of
\* etcs, dista_simple, dista_predictive, dista_rl raises, whether or not the
\* advisory controllers could be imported; a request that yields a
\* controller yields the one of the class named.
C19_UnknownTypeFails ==
    probe.fn = "create_controller" =>
        LET name == probe.args[2] IN
        /\ lower(name) \notin ControllerKeys => probe.result.raised
        /\ ~probe.result.raised => probe.result.kind = lower(name)

\* C20: braking_distance never returns an infinite distance, for any
\* v >= 0 and any a; for v = 0 it is 0 whatever a is; for a > 0 it is
\* v^2/(2a).
C20_BrakingDistanceFinite ==
    probe.fn = "braking_distance" =>
        LET v == probe.args[1]
            a == probe.args[2]
            d == probe.result
        IN  /\ ~d.inf
            /\ v = 0 => d.num = 0
            /\ a > 0 => d.num = v * v /\ d.den = 2 * a

\* C21: constructing a TrainBrakingCharacteristics fails for every mass <= 0
\* and for every brake percentage below 0 or above 200, and succeeds, with
\* the values given, for every mass > 0 and brake percentage from 0 to 200,
\* both bounds included.
C21_ProfileValidated ==
    probe.fn = "TrainBrakingCharacteristics" =>
        LET bp   == probe.args[2]
            mass == probe.args[3]
        IN  /\ (mass <= 0 \/ bp < 0 \/ bp > 200) <=> probe.result.raised
            /\ ~probe.result.raised =>
                  /\ probe.result.brake_percentage = bp
                  /\ probe.result.mass_tons = mass

\* C21 witness: a profile with brake percentage 200 was constructed
C21_Witness ==
    /\ probe.fn = "TrainBrakingCharacteristics"
    /\ probe.args[2] = 200 /\ probe.args[3] > 0
    /\ ~probe.result.raised

\* C22: constructing a TrainState never rejects its inputs but clamps them:
\* a negative position becomes 0, a negative velocity 0, a length below 1
\* becomes 1, an acceleration limit below 0.01 becomes 0.01 and (fixed-brake
\* mode) a brake limit below 0.01 becomes 0.01; values in range are stored
\* as given.  (Hundredths: 1 is 100, 0.01 is 1.)
C22_ConstructorClamps ==
    probe.fn = "TrainState" =>
        LET a == probe.args
            r == probe.result
        IN  /\ r.pos_m    = (IF a[1] < 0 THEN 0 ELSE a[1])
            /\ r.vel      = (IF a[2] < 0 THEN 0 ELSE a[2])
            /\ r.length_m = (IF a[3] < 100 THEN 100 ELSE a[3])
            /\ r.a_max    = (IF a[4] < 1 THEN 1 ELSE a[4])
            /\ r.a_brake  = (IF a[5] < 1 THEN 1 ELSE a[5])

\* C22 witness: a train was constructed from a negative position, a
\* negative velocity, a length between 0 and 1 and limits of 0
C22_Witness ==
    /\ probe.fn = "TrainState"
    /\ probe.args[1] < 0 /\ probe.args[2] < 0
    /\ probe.args[3] > 0 /\ probe.args[3] < 100
    /\ probe.args[4] = 0 /\ probe.args[5] = 0
    /\ probe.result.length_m = 100 /\ probe.result.a_max = 1

\* the adhesion coefficient the claim gives for a rail condition, in hundredths
ClaimedMu(rc) ==
    CASE rc = "dry" -> 33 [] rc = "wet" -> 25 [] rc = "slippery" -> 15 [] rc = "icy" -> 8

\* C23: max_deceleration = max(eps, min(pct/100 * mu * g * adhesion_factor,
\* mu * g) + gradient/1000 * g) with mu = 0.33/0.25/0.15/0.08 for
\* dry/wet/slippery/icy; it is strictly positive for every input and with
\* gradient 0 never above mu * g.  (Millionths of m/s^2; eps is the 0.1 of
\* the code.)
C23_MaxDeceleration ==
    probe.fn = "calculate_max_deceleration" =>
        LET ch   == probe.args[1]
            mu   == ClaimedMu(probe.args[2])
            gp   == probe.args[3]
            a    == probe.result
            th   == ch.brake_percentage * mu * 981 * ch.adhesion_factor
            lim  == mu * 981 * 100
            capd == IF th < lim THEN th ELSE lim
            tot  == capd + gp * 9810
        IN  /\ a = (IF tot > 100000 THEN tot ELSE 100000)
            /\ a > 0
            /\ gp = 0 => a <= lim

\* C23 witness: a brake percentage above 100 on level track, held to the
\* adhesion limit
C23_Witness ==
    /\ probe.fn = "calculate_max_deceleration"
    /\ probe.args[1].brake_percentage > 100 /\ probe.args[3] = 0
    /\ probe.result = ClaimedMu(probe.args[2]) * 981 * 100

\* C23 second case: no brake percentage and a strongly negative gradient,
\* the floor applies
C23_FloorReached ==
    /\ probe.fn = "calculate_max_deceleration"
    /\ probe.args[1].brake_percentage = 0 /\ probe.args[3] < 0
    /\ probe.result = 100000

\* the reaction time the claim gives, in tenths of a second
ClaimedReaction(ch, included) ==
    IF ~included THEN 0
    ELSE (IF ch.brake_type = "P" THEN 35 ELSE 80) - (IF ch.has_ep_brake THEN 15 ELSE 0)

\* C24: the full braking distance returns (0, 0) whenever
\* v_initial <= v_final; otherwise distance = v_initial*t_r +
\* (v_initial^2 - v_final^2)/(2a) and time = t_r + (v_initial - v_final)/a
\* with a = max_deceleration and t_r 3.5 s (P) or 8.0 s (G), less 1.5 s with
\* an EP brake, 0 when excluded; both are >= 0.  (Speeds in m/s, a in
\* millionths, t_r in tenths.)
C24_FullBrakingDistance ==
    probe.fn = "calculate_braking_distance" =>
        LET vi  == (probe.args[1] * 5) \div 18
            vf  == (probe.args[2] * 5) \div 18
            ch  == probe.args[3]
            a   == calculate_max_deceleration(ch, probe.args[4], probe.args[5])
            t_r == ClaimedReaction(ch, probe.args[6])
            s   == probe.result[1]
            t   == probe.result[2]
        IN  /\ probe.args[1] <= probe.args[2] =>
                  /\ s.whole10 = 0 /\ s.num = 0
                  /\ t.whole10 = 0 /\ t.num = 0
            /\ probe.args[1] > probe.args[2] =>
                  /\ s.whole10 = vi * t_r
                  /\ s.num = (vi * vi - vf * vf) * 1000000 /\ s.den = 2 * a
                  /\ t.whole10 = t_r
                  /\ t.num = (vi - vf) * 1000000 /\ t.den = a
            /\ s.whole10 >= 0 /\ s.num >= 0 /\ s.den > 0
            /\ t.whole10 >= 0 /\ t.num >= 0 /\ t.den > 0

\* C24 witness: braking between two positive speeds with a G brake that
\* has an EP brake, reaction time included: 6.5 s
C24_Witness ==
    /\ probe.fn = "calculate_braking_distance"
    /\ probe.args[1] > probe.args[2] /\ probe.args[2] > 0
    /\ probe.args[3].brake_type = "G" /\ probe.args[3].has_ep_brake
    /\ probe.args[6]
    /\ probe.result[2].whole10 = 65

\* C26: rate limits over the trace: between consecutive unfinished records
\* of a train the velocity rises by at most a_max*dt and falls by at most
\* a_brake*dt, whatever the controller asked for and whatever the limit of
\* the segment the train entered.
C26_RateLimits ==
    \A i, j \in 1..Len(log) :
        (Consecutive(i, j) /\ ~log[i].finished /\ ~log[j].finished) =>
            /\ log[j].v - log[i].v <= trains[log[i].id].a_max * dt
            /\ log[i].v - log[j].v <= trains[log[i].id].a_brake * dt

\* C26 witness: a train above the limit of its segment slowed by exactly
\* a_brake*dt and is still above that limit
C26_Witness ==
    \E i, j \in 1..Len(log) :
        /\ Consecutive(i, j) /\ ~log[i].finished /\ ~log[j].finished
        /\ log[i].v - log[j].v = trains[log[i].id].a_brake * dt
        /\ log[j].v > speed_limit(line, log[i].pos_m)

\* the records train y has at time t
RecordsOfAt(y, t) == {i \in RecordsOf(y) : log[i].t = t}

\* train y is as its last record says, or as it was handed in when it has none
AsLastRecorded(y) ==
    IF RecordsOf(y) = {} THEN trains[y] = trains0[y]
    ELSE LET i == CHOOSE k \in RecordsOf(y) : \A m \in RecordsOf(y) : m <= k
         IN  trains[y].pos_m = log[i].pos_m /\ trains[y].vel = log[i].v

\* s is in strictly rising fleet order
InFleetOrder(s) == \A a, b \in 1..Len(s) : a < b => s[a] < s[b]

\* C27: within a tick the trains are updated one after another in the order
\* of the fleet list, the same at every tick: when the controller of X
\* runs, every train earlier in the list has finished or has its record of
\* this tick and is read as stepped, and every train later in the list has
\* no record of this tick and is read as it was after the previous tick.
\* Exactly one thing can happen next in a running state (the head of the
\* queue is resumed, the clock advances, or the run returns), so equal
\* inputs give equal traces.
C27_SequentialInFleetOrder ==
    /\ [](pc = "running" =>
            /\ InFleetOrder(pending) /\ InFleetOrder(queue)
            /\ \A a \in 1..Len(pending), b \in 1..Len(queue) : pending[a] < queue[b]
            /\ Cardinality({g \in {"due", "advance", "return"} :
                              \/ g = "due" /\ ProcessDue
                              \/ g = "advance" /\ CanAdvance
                              \/ g = "return" /\ CanReturn}) = 1)
    /\ [][ControllerCalled =>
            LET x == call'.me IN
            /\ x = Head(queue)
            /\ \A y \in Trains : y < x =>
                  \/ y \in finished_trains
                  \/ /\ RecordsOfAt(y, now) /= {}
                     /\ AsLastRecorded(y)
            /\ \A y \in Trains : y > x =>
                  /\ RecordsOfAt(y, now) = {}
                  /\ AsLastRecorded(y)]_vars

\* C27 witness: after the first tick the controller of a train ran with a
\* leader that is earlier in the list, already stepped for this tick, while
\* a train later in the list was still to come
C27_Witness ==
    /\ pc = "running" /\ now > 0 /\ queue /= <<>> /\ pending /= <<>>
    /\ call.me = pending[Len(pending)] /\ ~call.raised
    /\ call.leader /= 0 /\ call.leader < call.me
    /\ \E i \in RecordsOfAt(call.leader, now) : ~log[i].finished /\ i <= call.at

\* at the start the trains are on the line, at different positions, and
\* every train has a gap of at least d_safe to the nearest train ahead:
\* 2a*gap >= v^2 + 2a*(v*tr + margin)
StartedAtSafeGaps ==
    /\ \A x \in Trains : trains0[x].pos_m <= line.total_m
    /\ \A x, y \in Trains : x /= y => trains0[x].pos_m /= trains0[y].pos_m
    /\ \A x \in Trains :
          LET me == trains0[x]
              ld == find_leader(trains0, x)
              c  == controller_map[x]
          IN  ld /= None =>
                2 * me.a_brake * ((ld.pos_m - ld.length_m) - me.pos_m)
                  >= me.vel * me.vel + 2 * me.a_brake * (me.vel * c.tr + c.margin)

\* C28: liveness for a fleet: two or more trains under EtcsBaseline or
\* DistaAI_Simple with margin > 0, started with every gap at least d_safe
\* and run to the long horizon, all have a finished record when the run is
\* over.
C28_FleetFinishes ==
    (/\ RunOver /\ T = MaxT
     /\ Cardinality(Trains) >= 2 /\ Trains = Lookahead
     /\ \A x \in Trains : controller_map[x].margin > 0
     /\ StartedAtSafeGaps)
    => \A x \in Trains : \E i \in RecordsOf(x) : log[i].finished

\* C29: whatever the own state (also a velocity above the limit) and the
\* leader, DistaAI_RL.desired_speed returns a speed from 0 to the speed
\* limit at the train's position.
C29_AdvisoryWithinLimit ==
    [][(ControllerCalled /\ call'.me \in Advisory) =>
        /\ ~call'.raised
        /\ 0 <= call'.v
        /\ call'.v <= speed_limit(line, trains[call'.me].pos_m)]_vars

\* quotient p is strictly less than quotient q
Less(p, q) == p.num * q.den < q.num * p.den

\* a brake limit that is 0.65 of the train's max_deceleration, or the lower
\* value used above 120 km/h
IsServiceValue(me) ==
    LET a_max == calculate_max_deceleration(me.braking_char, me.rail_condition, 0)
    IN  \/ me.a_brake = Frac(a_max * 65, Million * 100)
        \/ /\ me.a_brake = Frac(a_max * 585, Million * 1000)
           /\ Less(me.a_brake, Frac(a_max * 65, Million * 100))

\* C25: a train with a braking profile always has a service brake value as
\* its brake limit (0.65 of max_deceleration, or the lower value of above
\* 120 km/h), which is strictly less than what emergency_brake() returns,
\* and in one tick its velocity falls by at most that limit times dt.
C25_ServiceBrakeOnly ==
    /\ [](\A x \in DOMAIN trains : trains[x].use_realistic_braking =>
            /\ IsServiceValue(trains[x])
            /\ Less(trains[x].a_brake, emergency_brake(trains[x])))
    /\ [][\A x \in DOMAIN trains : trains[x].use_realistic_braking =>
            (trains[x].vel - trains'[x].vel) * trains'[x].a_brake.den
                <= trains'[x].a_brake.num * dt]_vars

\* C25 witness: a train with a braking profile, above the limit of its
\* segment, slowed by exactly its brake limit times dt and is still above
\* that limit
C25_Witness ==
    \E i, j \in 1..Len(log) :
        /\ Consecutive(i, j) /\ ~log[i].finished /\ ~log[j].finished
        /\ trains[log[i].id].use_realistic_braking
        /\ (log[i].v - log[j].v) * trains[log[i].id].a_brake.den
               = trains[log[i].id].a_brake.num * dt
        /\ log[i].v > log[j].v
        /\ log[j].v > speed_limit(line, log[i].pos_m)

\* the controller called reads me.a_brake: DistaAI_RL behind a leader, in
\* the d_safe of its fallback
ReadsBrakeLimit ==
    /\ ControllerCalled
    /\ controller_map[call'.me].kind = "dista_rl"
    /\ call'.leader /= 0
    /\ trains[call'.me].use_realistic_braking

\* C30: whenever a controller reads the brake limit of a train with a
\* braking profile, the value is the service brake value at the velocity
\* the train has at that moment, also on the tick after the velocity
\* crossed 120 km/h.
C30_BrakeLimitAtCurrentVelocity ==
    [][ReadsBrakeLimit =>
        trains[call'.me].a_brake =
            calculate_service_brake_curve(trains[call'.me].vel * 36,
                trains[call'.me].braking_char, trains[call'.me].rail_condition)]_vars


====
